---- MODULE Spec2Model ----
(***************************************************************************)
(* The two guessers of qanta/guesser: the information-retrieval guesser    *)
(* (elasticsearch_wikidata.py) and the recurrent-network guesser (rnn.py). *)
(* Texts are sequences of words, scores and probabilities are integers.    *)
(***************************************************************************)
EXTENDS Integers, Sequences, FiniteSets, TLC

VARIABLES guesser,        \* the guesser class this run works with: "IR" or "RNN"
          is_human_model, \* ElasticSearchWikidataGuesser.is_human_model
          es,             \* the 'qb' index of the search service
          ir_files,       \* directory -> content of is_human_model.pickle
          job,            \* the parallel map of ElasticSearchWikidataGuesser.guess
          last,           \* the last call that returned or raised
          rnn,            \* the RNNGuesser instances: their fields
          tmp_file,       \* the file at RNN_MODEL_TMP_TARGET
          rnn_files,      \* directory -> final_rnn.keras and rnn_params.pickle
          runs            \* number of RNN training runs started so far

irvars == <<is_human_model, es, ir_files, job>>
rnnvars == <<rnn, tmp_file, rnn_files, runs>>
vars == <<guesser, is_human_model, es, ir_files, job, last, rnn, tmp_file, rnn_files,
          runs>>

None == "None"

\* a path that holds no file, and a file with its content
NoFile == [exists |-> FALSE]
File(content) == [exists |-> TRUE, content |-> content]

\* is_human_model = None, and a fitted pipeline
NoModel == [is_none |-> TRUE, clf |-> <<>>]
Fitted(clf) == [is_none |-> FALSE, clf |-> clf]

\* ---------------------------------------------------------------- bounds
MaxTrain == 2      \* questions in a training set
MaxQuestions == 2  \* questions in one guess call
MaxK == 2          \* largest max_n_guesses

\* ---------------------------------------------------------------- inputs
\* Raw answers of the training data; "Atlantis" has no wikidata item and
\* "Mount Olympus" has one whose 'instance of' list is empty.
RawAnswers == {"Napoleon", "Paris", "Mount Olympus", "Atlantis"}

\* A training question is a list of sentences, a sentence a list of words.
TrainQuestions == { << <<"famous">>, <<"french", "emperor">> >> }

\* Question texts handed to guess.
QueryTexts == { <<"emperor">>, <<"french">> }

Directories == {"d1"}

TrainingData ==
    UNION { [1..n -> [q : TrainQuestions, ans : RawAnswers]] : n \in 1..MaxTrain }

QuestionLists == UNION { [1..n -> QueryTexts] : n \in 0..MaxQuestions }

Ks == 0..MaxK

\* ---------------------------------------------------------------- helpers
Min(a, b) == IF a < b THEN a ELSE b
Max(a, b) == IF a > b THEN a ELSE b

Range(s) == { s[i] : i \in DOMAIN s }

\* s[:k] of Python for k >= 0
Take(s, k) == SubSeq(s, 1, Min(k, Len(s)))

\* ' '.join(sentences)
RECURSIVE Join(_)
Join(sentences) ==
    IF sentences = <<>> THEN <<>>
    ELSE Head(sentences) \o Join(Tail(sentences))

\* qanta.preprocess.format_guess: the canonical form of an answer
format_guess(a) ==
    CASE a = "Mount Olympus" -> "Mount_Olympus"
      [] a = "Mount_Olympus" -> "Mount_Olympus"
      [] OTHER -> a

\* output/wikidata.pickle: d['parsed_item_map'], page -> properties
\* (has_instance_of: 'instance of' in properties)
parsed_item_map ==
    [page \in {"Napoleon", "Plato", "Paris", "Mount Olympus", "Zeus"} |->
       CASE page = "Napoleon" -> [has_instance_of |-> TRUE, instance_of |-> <<"Human">>]
         [] page = "Plato" -> [has_instance_of |-> TRUE, instance_of |-> <<"Human">>]
         [] page = "Paris" ->
              [has_instance_of |-> TRUE, instance_of |-> <<"City", "Capital">>]
         [] page = "Mount Olympus" -> [has_instance_of |-> TRUE, instance_of |-> <<>>]
         [] OTHER -> [has_instance_of |-> FALSE, instance_of |-> <<>>]]

\* CachedWikipedia()[page].content
cw(page) ==
    CASE page = "Napoleon" -> <<"french", "emperor">>
      [] page = "Plato" -> <<"greek", "philosopher">>
      [] page = "Paris" -> <<"french", "city">>
      [] OTHER -> <<>>

\* ------------------------------------------------- the human / non-human map
create_instance_of_map(formatted_answers) ==
    LET kept == { page \in DOMAIN parsed_item_map :
                    /\ parsed_item_map[page].has_instance_of
                    /\ format_guess(page) \in formatted_answers
                    /\ Len(parsed_item_map[page].instance_of) > 0 }
    IN [guess \in { format_guess(page) : page \in kept } |->
          UNION { Range(parsed_item_map[page].instance_of) :
                    page \in { p \in kept : format_guess(p) = guess } }]

create_is_human_map(instance_of_map) ==
    [p \in DOMAIN instance_of_map |-> "Human" \in instance_of_map[p]]

\* is_human_map[p] of Python: a missing key raises KeyError
Lookup(is_human_map, p) ==
    IF p \in DOMAIN is_human_map
    THEN [err |-> None, value |-> is_human_map[p]]
    ELSE [err |-> "KeyError", value |-> FALSE]

\* format_human_data: the texts and the labels, or the KeyError of the first
\* page the map does not hold
format_human_data(is_human_map, td) ==
    LET flag(i) == Lookup(is_human_map, format_guess(td[i].ans))
        bad == { i \in DOMAIN td : flag(i).err # None }
        first == CHOOSE i \in bad : \A j \in bad : i <= j
    IN [err |-> IF bad = {} THEN None ELSE "KeyError",
        key |-> IF bad = {} THEN None ELSE format_guess(td[first].ans),
        x_data |-> [i \in DOMAIN td |-> Join(td[i].q)],
        y_data |-> [i \in DOMAIN td |-> IF flag(i).value THEN 1 ELSE 0]]

\* create_human_model: the fitted pipelines the data can give; a ridge
\* classifier answers with one of the classes it was fitted on.
create_human_model(x_data, y_data) ==
    { Fitted(clf) : clf \in [QueryTexts -> Range(y_data)] }

\* is_human_model.transform([query])[0]
transform(model, query) == model.clf[query]

\* bool(x) of Python on an integer
bool(x) == x # 0

\* ------------------------------------------------------------- the index
\* documents of train: page -> aggregated text, keys in insertion order
RECURSIVE Aggregate(_, _, _)
Aggregate(td, i, documents) ==
    IF i > Len(td) THEN documents
    ELSE LET page == format_guess(td[i].ans)
             paragraph == Join(td[i].q)
         IN IF page \in Range(documents.keys)
            THEN Aggregate(td, i + 1,
                   [documents EXCEPT !.text[page] = @ \o paragraph])
            ELSE Aggregate(td, i + 1,
                   [keys |-> Append(documents.keys, page),
                    text |-> [p \in Range(documents.keys) \cup {page} |->
                                IF p = page THEN paragraph ELSE documents.text[p]]])

Documents(td) == Aggregate(td, 1, [keys |-> <<>>, text |-> <<>>])

Answer(page, wiki_content, qb_content, is_human) ==
    [page |-> page, wiki_content |-> wiki_content,
     qb_content |-> qb_content, is_human |-> is_human]

\* build without the delete: the old index is kept
KeepIndex(index) == index

\* Index('qb').delete(); a missing index raises NotFoundError, which is logged
DeleteIndex(index) == [exists |-> FALSE, docs |-> <<>>]

\* ElasticSearchIndex.build
build(index, documents, is_human_map) ==
    LET deleted == DeleteIndex(index)
        created == [deleted EXCEPT !.exists = TRUE]
        missing == { p \in Range(documents.keys) : p \notin DOMAIN is_human_map }
    IN [err |-> IF missing = {} THEN None ELSE "KeyError",
        index |-> [created EXCEPT !.docs = @ \o
                     [i \in 1..Len(documents.keys) |->
                        Answer(documents.keys[i], cw(documents.keys[i]),
                               documents.text[documents.keys[i]],
                               Lookup(is_human_map, documents.keys[i]).value)]]]

\* number of positions of a field that hold a word of the query
Matches(text, field) == Cardinality({ i \in DOMAIN field : field[i] \in Range(text) })

\* multi_match over wiki_content and qb_content: the better field counts
score(text, doc) == Max(Matches(text, doc.wiki_content), Matches(text, doc.qb_content))

\* search without the 'term' filter
NoFilter(doc, is_human) == TRUE

\* the 'term' filter of search
Filter(doc, is_human) == doc.is_human = is_human

\* hits in descending score, equal scores in index order
RECURSIVE Ranked(_, _, _)
Ranked(index, text, hits) ==
    IF hits = {} THEN <<>>
    ELSE LET best == CHOOSE i \in hits : \A j \in hits :
                        \/ score(text, index.docs[i]) > score(text, index.docs[j])
                        \/ /\ score(text, index.docs[i]) = score(text, index.docs[j])
                           /\ i <= j
         IN <<best>> \o Ranked(index, text, hits \ {best})

\* ElasticSearchIndex.search; execute() gives the first page of 10 hits
search(index, text, is_human) ==
    LET hits == { i \in DOMAIN index.docs :
                    /\ Filter(index.docs[i], is_human)
                    /\ score(text, index.docs[i]) > 0 }
        order == Ranked(index, text, hits)
    IN Take([n \in DOMAIN order |->
               <<index.docs[order[n]].page, score(text, index.docs[order[n]])>>], 10)

\* ------------------------------------------------------------ IR guesser
\* ir_search of guess, run by one task of the parallel map
ir_search(b_is_human_model, index, query, max_n_guesses) ==
    IF b_is_human_model.is_none THEN [err |-> "AttributeError", value |-> <<>>]
    ELSE IF ~index.exists THEN [err |-> "NotFoundError", value |-> <<>>]
    ELSE LET is_human == bool(transform(b_is_human_model, query))
         IN [err |-> None,
             value |-> Take(search(index, query, is_human), max_n_guesses)]

IdleJob == [state |-> "idle", questions |-> <<>>, k |-> 0, model |-> NoModel,
            results |-> <<>>, finished |-> <<>>, output |-> <<>>]

\* ElasticSearchWikidataGuesser.train
IRTrain(td) ==
    /\ guesser = "IR"
    /\ job.state = "idle"
    /\ LET answers == { format_guess(td[i].ans) : i \in DOMAIN td }
           instance_of_map == create_instance_of_map(answers)
           is_human_map == create_is_human_map(instance_of_map)
           data == format_human_data(is_human_map, td)
           built == build(es, Documents(td), is_human_map)
       IN IF data.err # None
          THEN /\ last' = [op |-> "train", g |-> 0, err |-> data.err, info |-> data.key]
               /\ UNCHANGED <<is_human_model, es>>
          ELSE /\ \E fitted \in create_human_model(data.x_data, data.y_data) :
                     is_human_model' = fitted
               /\ es' = built.index
               /\ last' = [op |-> "train", g |-> 0, err |-> built.err,
                           info |-> [documents |-> Documents(td),
                                     is_human_map |-> is_human_map,
                                     prior |-> Len(es.docs)]]
    /\ UNCHANGED <<guesser, ir_files, job, rnnvars>>

\* guess: the closure is built and the questions are handed to the parallel map
IRGuess(questions, max_n_guesses) ==
    /\ guesser = "IR"
    /\ job.state = "idle"
    /\ job' = [state |-> "running", questions |-> questions, k |-> max_n_guesses,
               model |-> is_human_model,
               results |-> [i \in DOMAIN questions |-> <<>>],
               finished |-> <<>>, output |-> <<>>]
    /\ last' = [op |-> "guess", g |-> 0, err |-> None,
                info |-> [untrained |-> is_human_model.is_none]]
    /\ UNCHANGED <<guesser, is_human_model, es, ir_files, rnnvars>>

\* one task of map(ir_search), in any order; a task that raises fails the job
IRTask(i) ==
    /\ job.state = "running"
    /\ i \in DOMAIN job.questions
    /\ i \notin Range(job.finished)
    /\ LET r == ir_search(job.model, es, job.questions[i], job.k)
       IN IF r.err # None
          THEN /\ job' = [job EXCEPT !.state = "failed"]
               /\ last' = [last EXCEPT !.err = r.err]
          ELSE /\ job' = [job EXCEPT !.results[i] = r.value,
                                     !.finished = Append(@, i)]
               /\ UNCHANGED last
    /\ UNCHANGED <<guesser, is_human_model, es, ir_files, rnnvars>>

\* the results in the order in which the tasks finished, as an unordered
\* gather would give them
CollectInCompletionOrder(j) == [i \in DOMAIN j.questions |-> j.results[j.finished[i]]]

\* collect(): the results of the tasks, by position in the input
Collect(j) == [i \in DOMAIN j.questions |-> j.results[i]]

IRCollect ==
    /\ job.state = "running"
    /\ \A i \in DOMAIN job.questions : i \in Range(job.finished)
    /\ job' = [job EXCEPT !.state = "done", !.output = Collect(job)]
    /\ UNCHANGED <<guesser, is_human_model, es, ir_files, last, rnnvars>>

\* pickle.dump({'is_human_model': ...}) and pickle.load(f)['is_human_model']
PickleModel(model) == [is_human_model |-> model]
UnpickleModel(blob) == blob.is_human_model

\* guess returns (or raises) to its caller
IRReturn ==
    /\ job.state \in {"done", "failed"}
    /\ job' = IdleJob
    /\ UNCHANGED <<guesser, is_human_model, es, ir_files, last, rnnvars>>

IRSave(directory) ==
    /\ guesser = "IR"
    /\ job.state = "idle"
    /\ ir_files' = [ir_files EXCEPT ![directory] = File(PickleModel(is_human_model))]
    /\ last' = [op |-> "save", g |-> 0, err |-> None, info |-> directory]
    /\ UNCHANGED <<guesser, is_human_model, es, job, rnnvars>>

IRLoad(directory) ==
    /\ guesser = "IR"
    /\ job.state = "idle"
    /\ IF ~ir_files[directory].exists
       THEN /\ last' = [op |-> "load", g |-> 0, err |-> "FileNotFoundError",
                       info |-> directory]
            /\ UNCHANGED is_human_model
       ELSE /\ is_human_model' = UnpickleModel(ir_files[directory].content)
            /\ last' = [op |-> "load", g |-> 0, err |-> None, info |-> directory]
    /\ UNCHANGED <<guesser, es, ir_files, job, rnnvars>>

\* ------------------------------------------------------------ RNN guesser
max_n_epochs == 100
max_patience == 5

MaxRuns == 2     \* training runs in one behaviour
MaxPeriod == 6   \* longest distance between two improvements of a curve

RNNIds == {1, 2}
ValidCells == {"lstm", "gru", "simple_rnn"}

\* The cells the instances are configured with (conf['guessers']['RNN']).
ConfiguredCells == {"lstm", "rnn"}

\* What a training set gives: i_to_class (class id -> page, as
\* preprocess_dataset numbers the answers; ids from 0 are kept at positions
\* 1..n_classes) and what the network learns from it.
TrainingSets == { [i_to_class |-> <<"Plato", "Napoleon">>, w |-> 1],
                  [i_to_class |-> <<"Napoleon", "Plato">>, w |-> 2] }

\* The parameters set by train before the model is built; run stands for the
\* training data that vocab, embeddings, embedding_lookup, max_len and
\* n_classes were computed from.
NoParams == [is_none |-> TRUE, run |-> 0, i_to_class |-> <<>>]
Params(run, i_to_class) == [is_none |-> FALSE, run |-> run, i_to_class |-> i_to_class]

\* self.model: None, or a network with its architecture and its state
NoNet == [is_none |-> TRUE, run |-> 0, cell |-> "", epochs |-> 0, w |-> 0]
Net(run, cell, epochs, w) ==
    [is_none |-> FALSE, run |-> run, cell |-> cell, epochs |-> epochs, w |-> w]

\* RNNGuesser.__init__
NewGuesser(rnn_cell) == [rnn_cell |-> rnn_cell, params |-> NoParams, model |-> NoNet]

\* build_model with a default branch: an unknown cell family falls back to
\* SimpleRNN
build_model_fallback(rnn_cell) ==
    [err |-> None, cell |-> IF rnn_cell \in {"lstm", "gru"} THEN rnn_cell ELSE "simple_rnn"]

\* build_model: the cell family is checked first
build_model(rnn_cell) ==
    IF rnn_cell \in ValidCells
    THEN [err |-> None, cell |-> rnn_cell]
    ELSE [err |-> "ValueError", cell |-> ""]

\* The validation accuracy after each epoch, an input of fit: it improves at
\* every period-th epoch up to epoch last and stays level afterwards.
ValAcc(curve, epoch) == Min(epoch, curve.last) \div curve.period

\* last = 95: the patience runs out in the last epoch; 96: it would after it
AccCurves == [period : 1..MaxPeriod, last : {0, 10, 50, 94, 95, 96, max_n_epochs}]

\* the curve of the full system: the accuracy never improves
FlatCurve == [period |-> 1, last |-> 0]

\* a callback that stops one epoch later
StopTrainingLate(wait) == wait > max_patience

\* EarlyStopping(patience=max_patience): stop once wait reaches the patience
StopTraining(wait) == wait >= max_patience

\* one epoch of fit, then on_epoch_end of the callback
Epoch(curve, s) ==
    LET acc == ValAcc(curve, s.epoch + 1)
        improved == acc > s.best
        waited == IF improved THEN 0 ELSE s.wait + 1
    IN [epoch |-> s.epoch + 1, best |-> Max(s.best, acc), wait |-> waited,
        history |-> Append(s.history, acc),
        stop_training |-> ~improved /\ StopTraining(waited)]

\* the epoch loop of fit; it is unrolled in blocks of ten epochs only to keep
\* the evaluation shallow
RECURSIVE Epochs(_, _, _)
Epochs(curve, s, n) ==
    IF n = 0 \/ s.stop_training \/ s.epoch >= max_n_epochs THEN s
    ELSE Epochs(curve, Epoch(curve, s), n - 1)

RECURSIVE FitLoop(_, _)
FitLoop(curve, s) ==
    IF s.stop_training \/ s.epoch >= max_n_epochs THEN s
    ELSE FitLoop(curve, Epochs(curve, s, 10))

\* model.fit(..., epochs=max_n_epochs, callbacks=[EarlyStopping]): the
\* history; best starts below every accuracy
fit(curve) ==
    FitLoop(curve, [epoch |-> 0, best |-> -1, wait |-> 0, history |-> <<>>,
                    stop_training |-> FALSE]).history

\* RNNGuesser.train
RNNTrain(g, data, curve) ==
    /\ guesser = "RNN"
    /\ runs < MaxRuns
    /\ runs' = runs + 1
    /\ LET run == runs + 1
           params == Params(run, data.i_to_class)
           built == build_model(rnn[g].rnn_cell)
           history == fit(curve)
           trained == Net(run, built.cell, Len(history), data.w)
       IN IF built.err # None
          THEN /\ rnn' = [rnn EXCEPT ![g].params = params]
               /\ UNCHANGED tmp_file
               /\ last' = [op |-> "train", g |-> g, err |-> built.err,
                           info |-> [run |-> run, history |-> <<>>]]
          ELSE /\ rnn' = [rnn EXCEPT ![g].params = params, ![g].model = trained]
               /\ tmp_file' = File(trained)
               /\ last' = [op |-> "train", g |-> g, err |-> None,
                           info |-> [run |-> run, history |-> history]]
    /\ UNCHANGED <<guesser, irvars, rnn_files>>

\* dump_parameters / load_parameters, through pickle
dump_parameters(guesser_) == [rnn_cell |-> guesser_.rnn_cell, params |-> guesser_.params]
load_parameters(guesser_, blob) ==
    [guesser_ EXCEPT !.rnn_cell = blob.rnn_cell, !.params = blob.params]

\* RNNGuesser.save: the staging file is copied, then the parameters are dumped
RNNSave(g, directory) ==
    /\ guesser = "RNN"
    /\ IF ~tmp_file.exists
       THEN /\ last' = [op |-> "save", g |-> g, err |-> "FileNotFoundError",
                        info |-> directory]
            /\ UNCHANGED rnn_files
       ELSE /\ rnn_files' = [rnn_files EXCEPT ![directory] =
                               [weights |-> File(tmp_file.content),
                                params |-> File(dump_parameters(rnn[g]))]]
            /\ last' = [op |-> "save", g |-> g, err |-> None, info |-> directory]
    /\ UNCHANGED <<guesser, irvars, rnn, tmp_file, runs>>

\* RNNGuesser.load: the guesser load(directory) returns
Loaded(directory, rnn_cell) ==
    load_parameters([NewGuesser(rnn_cell) EXCEPT
                        !.model = rnn_files[directory].weights.content],
                    rnn_files[directory].params.content)

\* g = RNNGuesser.load(directory); the configured cell is the one g had
RNNLoad(g, directory) ==
    /\ guesser = "RNN"
    /\ IF ~rnn_files[directory].weights.exists \/ ~rnn_files[directory].params.exists
       THEN /\ last' = [op |-> "load", g |-> g, err |-> "FileNotFoundError",
                        info |-> directory]
            /\ UNCHANGED rnn
       ELSE /\ rnn' = [rnn EXCEPT ![g] = Loaded(directory, rnn[g].rnn_cell)]
            /\ last' = [op |-> "load", g |-> g, err |-> None, info |-> directory]
    /\ UNCHANGED <<guesser, irvars, tmp_file, rnn_files, runs>>

\* model.predict_proba on the encoded question: one probability per class
\* (in tenths), a function of the network state and the question
predict_proba(w, question) ==
    IF question = <<"french">> THEN <<5, 5>>
    ELSE IF w = 1 THEN <<3, 7>> ELSE <<7, 3>>

\* np.argsort(-row): classes by descending probability; quicksort is not
\* stable, so classes of equal probability come in the order of this build
RECURSIVE argsort(_, _, _)
argsort(row, left, ties) ==
    IF left = {} THEN <<>>
    ELSE LET top == { i \in left : \A j \in left : row[i] >= row[j] }
             first == IF ties = "index order"
                      THEN CHOOSE i \in top : \A j \in top : i <= j
                      ELSE CHOOSE i \in top : \A j \in top : i >= j
         IN <<first>> \o argsort(row, left \ {first}, ties)

\* the body of the loop of guess, for one row of class probabilities
DecodeRow(row, i_to_class, max_n_guesses, ties) ==
    LET sorted_labels == Take(argsort(row, DOMAIN row, ties), max_n_guesses)
    IN [n \in DOMAIN sorted_labels |->
          <<i_to_class[sorted_labels[n]], row[sorted_labels[n]]>>]

\* RNNGuesser.guess on the fields of a guesser
guess(guesser_, questions, max_n_guesses, ties) ==
    IF guesser_.params.is_none /\ questions # <<>>
    THEN [err |-> "TypeError", value |-> <<>>]       \* embedding_lookup is None
    ELSE IF guesser_.model.is_none
    THEN [err |-> "AttributeError", value |-> <<>>]  \* None.predict_proba
    ELSE [err |-> None,
          value |-> [i \in DOMAIN questions |->
                       DecodeRow(predict_proba(guesser_.model.w, questions[i]),
                                 guesser_.params.i_to_class, max_n_guesses, ties)]]

\* the orders in which a build of np.argsort can leave equal keys
TieOrders == {"index order", "reverse"}

\* guess changes no field and no file: a guess right after a guess reaches
\* nothing new and is left out
RNNGuess(g, questions, max_n_guesses, ties) ==
    /\ guesser = "RNN"
    /\ last.op # "guess"
    /\ LET r == guess(rnn[g], questions, max_n_guesses, ties)
       IN last' = [op |-> "guess", g |-> g, err |-> r.err,
                   info |-> [untrained |-> rnn[g].params.is_none /\ rnn[g].model.is_none,
                             ties |-> ties]]
    /\ UNCHANGED <<guesser, irvars, rnnvars>>

\* ------------------------------------------------------------ the system
Init ==
    /\ guesser \in {"IR", "RNN"}
    /\ is_human_model = NoModel
    /\ es = [exists |-> FALSE, docs |-> <<>>]
    /\ ir_files = [d \in Directories |-> NoFile]
    /\ job = IdleJob
    /\ last = [op |-> None, g |-> 0, err |-> None, info |-> None]
    /\ rnn \in IF guesser = "RNN"
               THEN [RNNIds -> { NewGuesser(c) : c \in ConfiguredCells }]
               ELSE [RNNIds -> { NewGuesser("lstm") }]
    /\ tmp_file = NoFile
    /\ rnn_files = [d \in Directories |-> [weights |-> NoFile, params |-> NoFile]]
    /\ runs = 0

Next ==
    \/ \E td \in TrainingData : IRTrain(td)
    \/ \E questions \in QuestionLists, k \in Ks : IRGuess(questions, k)
    \/ \E i \in 1..MaxQuestions : IRTask(i)
    \/ IRCollect
    \/ IRReturn
    \/ \E d \in Directories : IRSave(d) \/ IRLoad(d)
    \/ \E g \in RNNIds, data \in TrainingSets : RNNTrain(g, data, FlatCurve)
    \/ \E g \in RNNIds, d \in Directories : RNNSave(g, d) \/ RNNLoad(g, d)
    \/ \E g \in RNNIds, questions \in QuestionLists, k \in Ks, ties \in TieOrders :
          RNNGuess(g, questions, k, ties)

Spec == Init /\ [][Next]_vars

\* train of one guesser alone, over every accuracy curve
NextFit ==
    \E data \in TrainingSets, c \in AccCurves : RNNTrain(1, data, c)

SpecFit == Init /\ [][NextFit]_vars

\* ------------------------------------------------------------ properties
IRCalled(op) == guesser = "IR" /\ last.op = op
RNNCalled(op) == guesser = "RNN" /\ last.op = op
Trained(guesser_) == ~guesser_.model.is_none /\ ~guesser_.params.is_none

\* C1: guess returns one result list per question, each of at most k guesses,
\* the i-th list being the one computed for the i-th question, whatever the
\* order in which the tasks of the parallel map finished (IR guesser), and
\* likewise for the RNN guesser.
C1_GuessShape ==
    /\ job.state = "done" =>
         /\ Len(job.output) = Len(job.questions)
         /\ \A i \in DOMAIN job.questions :
              /\ Len(job.output[i]) <= job.k
              /\ job.output[i] = ir_search(job.model, es, job.questions[i], job.k).value
    /\ RNNCalled("guess") =>
         \A questions \in QuestionLists, k \in Ks :
            LET r == guess(rnn[last.g], questions, k, last.info.ties)
            IN r.err = None =>
                 /\ Len(r.value) = Len(questions)
                 /\ \A i \in DOMAIN questions :
                      /\ Len(r.value[i]) <= k
                      /\ r.value[i] = DecodeRow(
                            predict_proba(rnn[last.g].model.w, questions[i]),
                            rnn[last.g].params.i_to_class, k, last.info.ties)

\* two tasks finished in the opposite order and gave different results
C1_Witness ==
    /\ job.state = "done"
    /\ Len(job.questions) = 2
    /\ job.finished = <<2, 1>>
    /\ job.output[1] # job.output[2]
    /\ job.output[1] # <<>>

\* instance_of_map.get(p, set()) for the map train builds
InstanceOf(p) ==
    LET instance_of_map == create_instance_of_map({p})
    IN IF p \in DOMAIN instance_of_map THEN instance_of_map[p] ELSE {}

\* C2: train gives every answer p the human flag 'Human' in
\* instance_of_map.get(p, set()), and an answer without a knowledge-base
\* entry counts as non-human instead of making train fail.
C2_HumanFlag ==
    IRCalled("train") =>
        /\ last.err = None
        /\ \A i \in DOMAIN es.docs :
              es.docs[i].is_human = ("Human" \in InstanceOf(es.docs[i].page))

\* C3: guess on a guesser that was neither trained nor loaded fails at once
\* with a 'model not initialized' error, before any work is dispatched.
C3_UntrainedGuessFailsFast ==
    (last.op = "guess" /\ last.info.untrained) =>
        /\ last.err = "ModelNotInitialized"
        /\ job.state = "idle"

\* C4: after g.save(d) of a trained guesser, load(d) gives a guesser with the
\* same classifier (IR), the same parameters and network (RNN), and so the
\* same guesses.
C4_SaveLoadRoundTrip ==
    /\ (IRCalled("save") /\ ~is_human_model.is_none) =>
          UnpickleModel(ir_files[last.info].content) = is_human_model
    /\ (RNNCalled("save") /\ last.err = None /\ Trained(rnn[last.g])) =>
          LET loaded == Loaded(last.info, "lstm")
          IN /\ loaded.model = rnn[last.g].model
             /\ loaded.params = rnn[last.g].params
             /\ \A questions \in QuestionLists, k \in Ks, ties \in TieOrders :
                   guess(loaded, questions, k, ties) = guess(rnn[last.g], questions, k, ties)

\* C5: after build the index holds exactly one document per key of documents,
\* with that page's text and flag, and nothing of an earlier build, whether or
\* not an index existed; building again from the same inputs changes nothing.
C5_RebuildExact ==
    (IRCalled("train") /\ last.err = None) =>
        LET documents == last.info.documents
            is_human_map == last.info.is_human_map
        IN /\ es.exists
           /\ Len(es.docs) = Cardinality(Range(documents.keys))
           /\ \A p \in Range(documents.keys) :
                 \E i \in DOMAIN es.docs :
                    es.docs[i] = Answer(p, cw(p), documents.text[p], is_human_map[p])
           /\ build(es, documents, is_human_map).index = es
           /\ \A text \in QueryTexts, is_human \in BOOLEAN :
                 search(build(es, documents, is_human_map).index, text, is_human)
                    = search(es, text, is_human)

\* an index of two documents was rebuilt into one of a single document
C5_Witness ==
    /\ IRCalled("train") /\ last.err = None
    /\ last.info.prior = 2
    /\ Len(es.docs) = 1

Before(row, a, b) == row[a] > row[b] \/ (row[a] = row[b] /\ a < b)

\* the class at place n of that order
Placed(row, n) ==
    CHOOSE c \in DOMAIN row :
        Cardinality({ d \in DOMAIN row : Before(row, d, c) }) = n - 1

\* C7: a row is decoded into the min(max_n_guesses, n_classes) most probable
\* classes, in descending probability, equal probabilities by ascending class
\* id, each as (i_to_class[id], its probability).
C7_DecodeOrder ==
    (RNNCalled("guess") /\ last.err = None /\ Trained(rnn[last.g])) =>
        \A q \in QueryTexts, k \in Ks :
           LET row == predict_proba(rnn[last.g].model.w, q)
               i_to_class == rnn[last.g].params.i_to_class
           IN DecodeRow(row, i_to_class, k, last.info.ties)
                 = [n \in 1..Min(k, Len(row)) |->
                      <<i_to_class[Placed(row, n)], row[Placed(row, n)]>>]

\* C8: with an unsupported rnn_cell, train raises ValueError from build_model
\* before any epoch runs and before anything is written to the staging file.
C8_BadCellRaisesBeforeTraining ==
    (RNNCalled("train") /\ rnn[last.g].rnn_cell \notin ValidCells) =>
        /\ last.err = "ValueError"
        /\ last.info.history = <<>>
        /\ tmp_file.exists => tmp_file.content.run # last.info.run
        /\ rnn[last.g].model.run # last.info.run

\* train raised while the staging file held the network of an earlier run
C8_Witness ==
    /\ RNNCalled("train")
    /\ last.err = "ValueError"
    /\ tmp_file.exists

\* C9: the weights file save promotes is the network of the last train of the
\* saving guesser, so weights and parameters of a directory come from one
\* run; save of a guesser that was never trained promotes nothing.
C9_SavePromotesOwnWeights ==
    RNNCalled("save") =>
        IF Trained(rnn[last.g])
        THEN /\ last.err = None
             /\ rnn_files[last.info].weights.content = rnn[last.g].model
             /\ rnn_files[last.info].weights.content.run
                   = rnn_files[last.info].params.content.params.run
        ELSE last.err # None

\* the best accuracy of the first n epochs of a history
BestOf(history, n) ==
    LET seen == { history[e] : e \in 1..n } \cup {-1}
    IN CHOOSE a \in seen : \A b \in seen : a >= b

\* the accuracy did not improve in any of the max_patience epochs up to m
Stalled(history, m) ==
    /\ m > max_patience
    /\ \A e \in (m - max_patience + 1)..m : history[e] <= BestOf(history, e - 1)

\* C10: training runs at most max_n_epochs epochs and stops as soon as the
\* validation accuracy has not improved for max_patience epochs in a row; the
\* network is written to the staging file after the loop, and the history
\* holds every epoch that ran.
C10_TrainingLoop ==
    (RNNCalled("train") /\ last.err = None) =>
        LET history == last.info.history
            n == Len(history)
        IN /\ n >= 1 /\ n <= max_n_epochs
           /\ \A m \in 1..(n - 1) : ~Stalled(history, m)
           /\ n < max_n_epochs => Stalled(history, n)
           /\ tmp_file.exists
           /\ tmp_file.content.run = last.info.run
           /\ tmp_file.content.epochs = n
           /\ rnn[last.g].model = tmp_file.content

\* the patience ran out in the very last epoch, after 95 improvements
C10_Witness ==
    /\ RNNCalled("train") /\ last.err = None
    /\ Len(last.info.history) = max_n_epochs
    /\ Stalled(last.info.history, max_n_epochs)
    /\ last.info.history[max_n_epochs] > 0
====
